---- MODULE Spec2Model ----
(***************************************************************************)
(* The XmileSlider binding class of the XMILE parser                       *)
(* (bindings/xmile_slider.py): a keyword-only dataclass of 31 optional     *)
(* fields, each carrying static XML metadata (role and, for some,          *)
(* a namespace), under a Meta class that fixes the tag name and namespace. *)
(***************************************************************************)
EXTENDS Integers, Sequences, FiniteSets, TLC

\* ------------------------------------------------------------------ bounds

\* At most this many fields of an instance are populated at a time, and at
\* most this many keyword arguments are passed to the constructor.
MaxPopulated == 2

\* ------------------------------------------------------------------ values

\* Python values: a type tag and a payload.  A float is kept in tenths
\* (FloatVal(55) is 5.5), a str as its sequence of characters.
None == [t |-> "NoneType", v |-> 0]
BoolVal(b) == [t |-> "bool", v |-> b]
IntVal(n) == [t |-> "int", v |-> n]
FloatVal(tenths) == [t |-> "float", v |-> tenths]
StrVal(chars) == [t |-> "str", v |-> chars]
ObjVal(cls) == [t |-> cls, v |-> 1]

\* Python's == on the values above: bool, int and float compare by number
\* (True == 1 == 1.0), everything else by type and payload; None equals
\* only None.
IsNumber(x) == x.t \in {"bool", "int", "float"}
Tenths(x) ==
  CASE x.t = "bool" -> (IF x.v THEN 10 ELSE 0)
    [] x.t = "int" -> 10 * x.v
    [] x.t = "float" -> x.v
PyEq(x, y) ==
  IF IsNumber(x) /\ IsNumber(y) THEN Tenths(x) = Tenths(y)
  ELSE x.t = y.t /\ x.v = y.v

\* ------------------------------------------------------- the declarations

\* xmile_globals.XMILE_NAMESPACE and xmile_globals.ISEE_NAMESPACE.
XMILE_NAMESPACE == "http://docs.oasis-open.org/xmile/ns/XMILE/v1.0"
ISEE_NAMESPACE == "http://iseesystems.com/XMILE"

\* The module's own namespace constant.
__NAMESPACE__ == "http://docs.oasis-open.org/xmile/ns/XMILE/v1.0"

\* A Meta whose name was changed.
Meta_renamed == [name |-> "sliders", namespace |-> XMILE_NAMESPACE]

\* class Meta
Meta == [name |-> "slider", namespace |-> XMILE_NAMESPACE]

\* The field declarations, in declaration order: the annotation's types (in
\* the order the Union lists them), the default, and the metadata dict.
fields == <<
  [name |-> "show_name", types |-> <<"bool">>, default |-> None, metadata |-> [type |-> "Attribute"]],
  [name |-> "conditional_entity", types |-> <<"str">>, default |-> None, metadata |-> [type |-> "Attribute", namespace |-> ISEE_NAMESPACE]],
  [name |-> "increment", types |-> <<"int", "float">>, default |-> None, metadata |-> [type |-> "Attribute"]],
  [name |-> "width", types |-> <<"int", "float">>, default |-> None, metadata |-> [type |-> "Attribute"]],
  [name |-> "label_side", types |-> <<"str">>, default |-> None, metadata |-> [type |-> "Attribute"]],
  [name |-> "y", types |-> <<"float", "int">>, default |-> None, metadata |-> [type |-> "Attribute"]],
  [name |-> "wrap_title", types |-> <<"bool">>, default |-> None, metadata |-> [type |-> "Attribute"]],
  [name |-> "always_show_hover_tip", types |-> <<"bool">>, default |-> None, metadata |-> [type |-> "Attribute", namespace |-> ISEE_NAMESPACE]],
  [name |-> "input_expands", types |-> <<"bool">>, default |-> None, metadata |-> [type |-> "Attribute"]],
  [name |-> "title", types |-> <<"str">>, default |-> None, metadata |-> [type |-> "Attribute"]],
  [name |-> "x", types |-> <<"float", "int">>, default |-> None, metadata |-> [type |-> "Attribute"]],
  [name |-> "uid", types |-> <<"int">>, default |-> None, metadata |-> [type |-> "Attribute"]],
  [name |-> "show_hover_tip", types |-> <<"str">>, default |-> None, metadata |-> [type |-> "Attribute", namespace |-> ISEE_NAMESPACE]],
  [name |-> "vertical", types |-> <<"bool">>, default |-> None, metadata |-> [type |-> "Attribute"]],
  [name |-> "fancy_appearance", types |-> <<"bool">>, default |-> None, metadata |-> [type |-> "Attribute", namespace |-> ISEE_NAMESPACE]],
  [name |-> "height", types |-> <<"int", "float">>, default |-> None, metadata |-> [type |-> "Attribute"]],
  [name |-> "max", types |-> <<"int", "float">>, default |-> None, metadata |-> [type |-> "Attribute"]],
  [name |-> "color", types |-> <<"str">>, default |-> None, metadata |-> [type |-> "Attribute"]],
  [name |-> "font_weight", types |-> <<"str">>, default |-> None, metadata |-> [type |-> "Attribute"]],
  [name |-> "font_color", types |-> <<"str">>, default |-> None, metadata |-> [type |-> "Attribute"]],
  [name |-> "background", types |-> <<"str">>, default |-> None, metadata |-> [type |-> "Attribute"]],
  [name |-> "font_family", types |-> <<"str">>, default |-> None, metadata |-> [type |-> "Attribute"]],
  [name |-> "font_size", types |-> <<"str">>, default |-> None, metadata |-> [type |-> "Attribute"]],
  [name |-> "num_ticks", types |-> <<"int">>, default |-> None, metadata |-> [type |-> "Attribute"]],
  [name |-> "input_width", types |-> <<"int">>, default |-> None, metadata |-> [type |-> "Attribute"]],
  [name |-> "navigate_to", types |-> <<"bool">>, default |-> None, metadata |-> [type |-> "Attribute", namespace |-> ISEE_NAMESPACE]],
  [name |-> "min", types |-> <<"int", "float">>, default |-> None, metadata |-> [type |-> "Attribute"]],
  [name |-> "z_index", types |-> <<"int">>, default |-> None, metadata |-> [type |-> "Attribute"]],
  [name |-> "format", types |-> <<"XmileFormat">>, default |-> None, metadata |-> [type |-> "Element"]],
  [name |-> "entity", types |-> <<"XmileEntity">>, default |-> None, metadata |-> [type |-> "Element"]],
  [name |-> "reset_to", types |-> <<"XmileResetTo">>, default |-> None, metadata |-> [type |-> "Element"]]
>>

FieldNames == {fields[i].name : i \in 1..Len(fields)}
declarations == [f \in FieldNames |-> fields[CHOOSE i \in 1..Len(fields) : fields[i].name = f]]
Decl(f) == declarations[f]

\* A field declared with a default other than None.
Default_zero(f) == IF f = "min" THEN IntVal(0) ELSE declarations[f].default

\* dataclasses.field(default=...): the value a field takes when the
\* constructor is not given it.
Default(f) == Decl(f).default

\* A numeric field declared float only.
Types_float_only(f) == IF f = "x" THEN <<"float">> ELSE declarations[f].types

\* The annotation Optional[...]: the types a field declares besides None.
Types(f) == Decl(f).types

\* A field whose metadata gives it no XML role, and a nested field declared
\* an attribute.
Role_ignored(f) == IF f = "title" THEN "Ignore" ELSE declarations[f].metadata.type
Role_flattened(f) == IF f = "reset_to" THEN "Attribute" ELSE declarations[f].metadata.type

\* metadata["type"] of a field.
Role(f) == Decl(f).metadata.type

\* A vendor field whose metadata lost its namespace.
HasNamespace_dropped(f) == f # "navigate_to" /\ "namespace" \in DOMAIN declarations[f].metadata

\* metadata["namespace"] of a field that declares one.
HasNamespace(f) == "namespace" \in DOMAIN Decl(f).metadata
OwnNamespace(f) == Decl(f).metadata.namespace

\* --------------------------------------------------- the XML (de)serializer

\* The element name and namespace the serializer reads off the class.
ElementName == Meta.name
ElementNamespace == Meta.namespace

\* The namespace a field's attribute or child is bound to: its own when the
\* metadata names one, the record's otherwise.
FieldNamespace(f) == IF HasNamespace(f) THEN OwnNamespace(f) ELSE ElementNamespace

\* XML text is a sequence of characters.
Digit == <<"0", "1", "2", "3", "4", "5", "6", "7", "8", "9">>
DigitOf(c) == (CHOOSE d \in 1..Len(Digit) : Digit[d] = c) - 1
IsDigits(s) == Len(s) > 0 /\ \A i \in 1..Len(s) : \E d \in 1..Len(Digit) : Digit[d] = s[i]

RECURSIVE IntText(_)
IntText(n) == IF n < 10 THEN <<Digit[n + 1]>> ELSE IntText(n \div 10) \o <<Digit[(n % 10) + 1]>>
FloatText(tenths) == IntText(tenths \div 10) \o <<".">> \o <<Digit[(tenths % 10) + 1]>>
BoolText(b) == IF b THEN <<"t", "r", "u", "e">> ELSE <<"f", "a", "l", "s", "e">>

\* The lexical form of a scalar value, chosen by the value's own type.
ToText(x) ==
  CASE x.t = "bool" -> BoolText(x.v)
    [] x.t = "int" -> IntText(x.v)
    [] x.t = "float" -> FloatText(x.v)
    [] x.t = "str" -> x.v

RECURSIVE DigitsValue(_)
DigitsValue(s) ==
  IF Len(s) = 0 THEN 0 ELSE 10 * DigitsValue(SubSeq(s, 1, Len(s) - 1)) + DigitOf(s[Len(s)])

Failed == [ok |-> FALSE, value |-> None]
Parsed(x) == [ok |-> TRUE, value |-> x]
ParseBool(s) ==
  IF s \in {<<"t", "r", "u", "e">>, <<"1">>} THEN Parsed(BoolVal(TRUE))
  ELSE IF s \in {<<"f", "a", "l", "s", "e">>, <<"0">>} THEN Parsed(BoolVal(FALSE))
  ELSE Failed
ParseInt(s) == IF IsDigits(s) THEN Parsed(IntVal(DigitsValue(s))) ELSE Failed
\* An integer literal, or digits, a point and one decimal digit.
ParseFloat(s) ==
  IF IsDigits(s) THEN Parsed(FloatVal(10 * DigitsValue(s)))
  ELSE IF /\ Len(s) >= 3
          /\ s[Len(s) - 1] = "."
          /\ IsDigits(SubSeq(s, 1, Len(s) - 2))
          /\ IsDigits(<<s[Len(s)]>>)
       THEN Parsed(FloatVal(10 * DigitsValue(SubSeq(s, 1, Len(s) - 2)) + DigitOf(s[Len(s)])))
       ELSE Failed
ParseAs(type, s) ==
  CASE type = "bool" -> ParseBool(s)
    [] type = "int" -> ParseInt(s)
    [] type = "float" -> ParseFloat(s)
    [] type = "str" -> Parsed(StrVal(s))
    [] OTHER -> Failed

\* The text of an attribute is read as the first of the field's declared
\* types that accepts it, the stricter type first whatever the order the
\* annotation lists them in: an integer literal is an int wherever int is
\* declared.
StrictFirst == <<"bool", "int", "float", "str">>
RECURSIVE FirstParse(_, _, _)
FirstParse(f, s, i) ==
  IF i > Len(StrictFirst) THEN Failed
  ELSE IF StrictFirst[i] \in {Types(f)[j] : j \in 1..Len(Types(f))} /\ ParseAs(StrictFirst[i], s).ok
       THEN ParseAs(StrictFirst[i], s)
       ELSE FirstParse(f, s, i + 1)
FromText(f, s) == FirstParse(f, s, 1)

\* An XmileSlider instance as a <slider> element: an attribute for each
\* populated field of role Attribute, a child for each populated field of
\* role Element; an unset field is left out.
ToElement(o) ==
  [name |-> ElementName,
   namespace |-> ElementNamespace,
   attrs |-> {[namespace |-> FieldNamespace(f), name |-> f, text |-> ToText(o[1][f])] :
                f \in {g \in FieldNames : o[1][g] # None /\ Role(g) = "Attribute"}},
   children |-> {[namespace |-> FieldNamespace(f), name |-> f, content |-> o[1][f].t] :
                f \in {g \in FieldNames : o[1][g] # None /\ Role(g) = "Element"}}]

\* A <slider> element as constructor arguments: each attribute and child
\* is matched to the field of its name, role and namespace.
AttrOk(a) ==
  /\ a.name \in FieldNames
  /\ Role(a.name) = "Attribute"
  /\ a.namespace = FieldNamespace(a.name)
  /\ FromText(a.name, a.text).ok
ChildOk(c) ==
  /\ c.name \in FieldNames
  /\ Role(c.name) = "Element"
  /\ c.namespace = FieldNamespace(c.name)
  /\ c.content = Types(c.name)[1]
ElementOk(d) ==
  /\ d.name = ElementName
  /\ d.namespace = ElementNamespace
  /\ \A a \in d.attrs : AttrOk(a)
  /\ \A c \in d.children : ChildOk(c)
FromElement(d) ==
  [f \in {a.name : a \in d.attrs} \cup {c.name : c \in d.children} |->
     IF \E a \in d.attrs : a.name = f
     THEN FromText(f, (CHOOSE a \in d.attrs : a.name = f).text).value
     ELSE ObjVal((CHOOSE c \in d.children : c.name = f).content)]

\* --------------------------------------------------------------- the state

VARIABLES
  inst,   \* the XmileSlider instance at hand: <<>> (none) or <<its fields>>
  err,    \* the exception the last call raised, "" when it returned
  call,   \* the last call: its name and arguments (of an assignment, the
          \* field and the value it was given; an unset keeps no field)
  doc,    \* the <slider> element at hand: <<>> (none) or <<the element>>
  orig,   \* the instance doc was serialized from, <<>> if doc was received
  indoc   \* the element inst was deserialized from, <<>> if inst was built

vars == <<inst, err, call, doc, orig, indoc>>

NoCall == [op |-> "", nargs |-> 0, kwargs |-> <<>>, name |-> "", value |-> None]
Called(op) == [NoCall EXCEPT !.op = op]

\* An instance's __dict__: every declared field mapped to its value.
Get(o, f) == o[1][f]
Populated(o) == {f \in FieldNames : Get(o, f) # None}

\* ------------------------------------------------------------- the inputs

TypeSet(f) == {Types(f)[i] : i \in 1..Len(Types(f))}
Nested == {"XmileFormat", "XmileEntity", "XmileResetTo"}

\* Values of a field's declared types.
WellTyped ==
  [f \in FieldNames |->
     (IF "bool" \in TypeSet(f) THEN {BoolVal(TRUE), BoolVal(FALSE)} ELSE {})
     \cup (IF "int" \in TypeSet(f) /\ "float" \notin TypeSet(f) THEN {IntVal(0), IntVal(12)} ELSE {})
     \cup (IF "float" \in TypeSet(f) THEN {IntVal(5), FloatVal(50), FloatVal(55)} ELSE {})
     \cup (IF "str" \in TypeSet(f) THEN {StrVal(<<>>), StrVal(<<"a">>)} ELSE {})
     \cup {ObjVal(c) : c \in TypeSet(f) \cap Nested}]

\* What the field calls below assign: the falsy value of the declared type
\* (the nested record for a nested field) and a value of another type.
Falsy(f) ==
  IF "bool" \in TypeSet(f) THEN BoolVal(FALSE)
  ELSE IF "int" \in TypeSet(f) THEN IntVal(0)
  ELSE IF "str" \in TypeSet(f) THEN StrVal(<<>>)
  ELSE ObjVal(Types(f)[1])
Mistyped(f) == IF "str" \in TypeSet(f) THEN IntVal(5) ELSE StrVal(<<"a">>)

\* The first field declared with each type annotation: the fields that are
\* also given a value of another type.  Every field is given its falsy value.
FirstOfType ==
  {fields[i].name :
     i \in {k \in 1..Len(fields) : \A j \in 1..(k - 1) : fields[j].types # fields[k].types}}
Arguments ==
  [k \in FieldNames \cup {"colour"} |->
     IF k \notin FieldNames THEN {StrVal(<<"a">>)}
     ELSE IF k \in FirstOfType THEN {Falsy(k), Mistyped(k)}
     ELSE {Falsy(k)}]
Assignable == [f \in FieldNames |-> Arguments[f] \cup {None}]

\* The texts an incoming attribute carries, the last of the int fields' not
\* an integer.
Lexical ==
  [f \in {g \in FieldNames : Role(g) = "Attribute"} |->
     IF "bool" \in TypeSet(f) THEN {<<"t", "r", "u", "e">>, <<"0">>}
     ELSE IF "float" \in TypeSet(f) THEN {<<"5">>, <<"5", ".", "0">>, <<"5", ".", "5">>}
     ELSE IF "int" \in TypeSet(f) THEN {<<"1", "2">>, <<"5", ".", "5">>}
     ELSE {<<>>, <<"a">>}]

\* The sets of at most n of the given names.
RECURSIVE UpTo(_, _)
UpTo(names, n) ==
  IF n = 0 THEN {{}}
  ELSE LET K == UpTo(names, n - 1) IN K \cup {S \cup {x} : S \in K, x \in names}

\* The functions that give each name of S one of its samples.
Choices(S, samples) ==
  {g \in [S -> UNION {samples[k] : k \in S}] : \A k \in S : g[k] \in samples[k]}

PositionalArgs == {<<>>, <<BoolVal(TRUE)>>}
KeywordSets == UpTo(DOMAIN Arguments, MaxPopulated)
FieldSets == UpTo(FieldNames, MaxPopulated)

\* An incoming <slider> element with the given attributes and children.
Incoming(S, texts) ==
  [name |-> "slider",
   namespace |-> XMILE_NAMESPACE,
   attrs |-> {[namespace |-> FieldNamespace(f), name |-> f, text |-> texts[f]] :
                f \in {g \in S : Role(g) = "Attribute"}},
   children |-> {[namespace |-> FieldNamespace(f), name |-> f, content |-> Types(f)[1]] :
                f \in {g \in S : Role(g) = "Element"}}]

\* ---------------------------------------------------------- the operations

\* A constructor that validates its arguments against the annotations.
InitFields_validating(kwargs) ==
  [f \in FieldNames |->
     IF f \in DOMAIN kwargs /\ kwargs[f].t \in TypeSet(f) THEN kwargs[f] ELSE declarations[f].default]

\* The generated __init__(self, *, show_name=None, ...): every parameter is
\* keyword-only, so a positional argument or an undeclared keyword is a
\* TypeError; otherwise each field takes its argument or its default.
InitFields(kwargs) ==
  [f \in FieldNames |-> IF f \in DOMAIN kwargs THEN kwargs[f] ELSE Default(f)]
XmileSlider__init__(positional, keywords, samples) ==
  /\ inst = <<>>
  /\ doc = <<>>
  /\ err = ""
  /\ \E args \in positional, S \in keywords : \E kwargs \in Choices(S, samples) :
       /\ call' = [Called("__init__") EXCEPT !.nargs = Len(args), !.kwargs = kwargs]
       /\ IF Len(args) > 0 \/ ~(DOMAIN kwargs \subseteq FieldNames)
          THEN inst' = <<>> /\ err' = "TypeError"
          ELSE inst' = <<InitFields(kwargs)>> /\ err' = ""
  /\ UNCHANGED <<doc, orig, indoc>>

\* An assignment that also resets another field.
SetField_clobbering(o, f, v) == <<[o[1] EXCEPT ![f] = v, !["title"] = None]>>

\* Attribute assignment on an instance (the class is neither frozen nor
\* slotted): the named field takes the value, whatever its type.
SetField(o, f, v) == <<[o[1] EXCEPT ![f] = v]>>
XmileSlider__setattr__(f, v) ==
  /\ inst # <<>>
  /\ doc = <<>>
  /\ err = ""
  /\ inst' = SetField(inst, f, v)
  /\ call' = [Called("__setattr__") EXCEPT !.name = IF v = None THEN "" ELSE f, !.value = v]
  /\ err' = ""
  /\ doc' = <<>>
  /\ orig' = <<>>
  /\ indoc' = <<>>

\* A comparison that leaves the last field out.
AsTuple_skipping(o) == [i \in 1..(Len(fields) - 1) |-> o[1][fields[i].name]]

\* The generated __eq__: the two instances' fields, as tuples in declaration
\* order, compare equal.
AsTuple(o) == [i \in 1..Len(fields) |-> Get(o, fields[i].name)]
TupleEq(s, t) == Len(s) = Len(t) /\ \A i \in 1..Len(s) : PyEq(s[i], t[i])
XmileSlider__eq__(a, b) == TupleEq(AsTuple(a), AsTuple(b))

\* The serializer writes the instance at hand.
Serialize ==
  /\ inst # <<>>
  /\ doc = <<>>
  /\ err = ""
  /\ doc' = <<ToElement(inst)>>
  /\ orig' = inst
  /\ call' = Called("serialize")
  /\ UNCHANGED <<inst, err, indoc>>

\* A <slider> element arrives from a model file.
Receive ==
  /\ inst = <<>>
  /\ doc = <<>>
  /\ err = ""
  /\ \E S \in FieldSets : \E texts \in Choices({f \in S : Role(f) = "Attribute"}, Lexical) :
       doc' = <<Incoming(S, texts)>>
  /\ call' = Called("receive")
  /\ UNCHANGED <<inst, err, orig, indoc>>

\* The deserializer reads the element at hand and constructs an instance
\* from it; text that no declared type accepts is a parse failure.
Deserialize ==
  /\ doc # <<>>
  /\ err = ""
  /\ call' = Called("deserialize")
  /\ doc' = <<>>
  /\ IF ElementOk(doc[1])
     THEN inst' = <<InitFields(FromElement(doc[1]))>> /\ err' = "" /\ indoc' = doc
     ELSE inst' = <<>> /\ err' = "ParseError" /\ indoc' = <<>>
  /\ UNCHANGED orig

\* The instance goes out of scope.
Discard ==
  /\ inst # <<>>
  /\ doc = <<>>
  /\ err = ""
  /\ inst' = <<>>
  /\ orig' = <<>>
  /\ indoc' = <<>>
  /\ call' = NoCall
  /\ UNCHANGED <<err, doc>>

\* The caller handles the exception.
Except ==
  /\ err # ""
  /\ err' = ""
  /\ orig' = <<>>
  /\ call' = NoCall
  /\ UNCHANGED <<inst, doc, indoc>>

Init ==
  /\ inst = <<>>
  /\ err = ""
  /\ call = NoCall
  /\ doc = <<>>
  /\ orig = <<>>
  /\ indoc = <<>>

\* Construction and field access.  A populated field is given a value or
\* unset; an unset field is given a value while fewer than MaxPopulated are
\* populated.
Next ==
  \/ XmileSlider__init__(PositionalArgs, KeywordSets, Arguments)
  \/ /\ inst # <<>>
     /\ LET room == Cardinality(Populated(inst)) < MaxPopulated IN
          \E f \in FieldNames : \E v \in Assignable[f] :
            /\ Get(inst, f) # None \/ (v # None /\ room)
            /\ XmileSlider__setattr__(f, v)
  \/ Discard
  \/ Except

Spec == Init /\ [][Next]_vars

\* Instances of well-typed fields through the serializer and back, and
\* incoming elements through the deserializer and out again.
NextXml ==
  \/ XmileSlider__init__({<<>>}, FieldSets, WellTyped)
  \/ Receive
  \/ Serialize
  \/ Deserialize
  \/ Discard
  \/ Except

SpecXml == Init /\ [][NextXml]_vars
\* ------------------------------------------------------------- the claims

Vendor ==
  {"conditional_entity", "always_show_hover_tip", "show_hover_tip", "fancy_appearance",
   "navigate_to"}
Elements == {"format", "entity", "reset_to"}
NumericFields == {"increment", "width", "y", "height", "max", "min", "x"}

\* C1: the class declares 31 fields, and a construction that returns leaves
\* unset (None) every declared field it was not given; given no argument at
\* all, every one of the 31.
DeclaresThirtyOneFields == Len(fields) = 31 /\ Cardinality(FieldNames) = 31
C1_ConstructionLeavesTheRestUnset ==
  /\ DeclaresThirtyOneFields
  /\ (call.op = "__init__" /\ err = "") =>
       /\ inst # <<>>
       /\ \A f \in FieldNames \ DOMAIN call.kwargs : Get(inst, f) = None
       /\ (DOMAIN call.kwargs = {} => Populated(inst) = {})
C1_Witness ==
  /\ call.op = "__init__"
  /\ err = ""
  /\ DOMAIN call.kwargs = {"min", "entity"}
  /\ Populated(inst) = {"min", "entity"}

NumericFieldsDeclared ==
  {f \in FieldNames : {"int", "float"} \subseteq TypeSet(f)} = NumericFields
NamespacesDeclared ==
  /\ ISEE_NAMESPACE # XMILE_NAMESPACE
  /\ \A f \in FieldNames :
       FieldNamespace(f) = IF f \in Vendor THEN ISEE_NAMESPACE ELSE XMILE_NAMESPACE
C4_NamespaceFidelity ==
  /\ NamespacesDeclared
  /\ call.op = "serialize" =>
       /\ \A a \in doc[1].attrs :
            a.namespace = IF a.name \in Vendor THEN ISEE_NAMESPACE ELSE XMILE_NAMESPACE
       /\ \A c \in doc[1].children : c.namespace = XMILE_NAMESPACE
C4_Witness ==
  /\ call.op = "serialize"
  /\ Get(orig, "always_show_hover_tip") = BoolVal(TRUE)
  /\ \E a \in doc[1].attrs :
       /\ a.name = "always_show_hover_tip"
       /\ a.text = <<"t", "r", "u", "e">>
       /\ a.namespace = ISEE_NAMESPACE

\* C5: whatever the constructor was given and whatever was assigned since,
\* the tag name is "slider" and the namespace the XMILE v1.0 namespace, for
\* the class and for the element an instance is written as.
MetaDeclared ==
  /\ Meta.name = "slider"
  /\ Meta.namespace = "http://docs.oasis-open.org/xmile/ns/XMILE/v1.0"
C5_TagAndNamespaceFixed ==
  /\ MetaDeclared
  /\ inst # <<>> =>
       LET element == ToElement(inst) IN
         /\ element.name = "slider"
         /\ element.namespace = "http://docs.oasis-open.org/xmile/ns/XMILE/v1.0"
C5_Witness ==
  /\ call.op = "__setattr__"
  /\ Cardinality(Populated(inst)) = MaxPopulated
  /\ ToElement(inst).name = "slider"

\* C6: an assignment of v to the field f makes f read v, an unset of f makes
\* it read None, and either leaves every other field as it was.
C6_AssignmentFrame ==
  [][/\ (call'.op = "__setattr__" /\ call'.name # "") =>
          /\ inst' # <<>>
          /\ Get(inst', call'.name) = call'.value
          /\ \A g \in FieldNames \ {call'.name} : Get(inst', g) = Get(inst, g)
     /\ (call'.op = "__setattr__" /\ call'.name = "") =>
          \A f \in Populated(inst) :
            XmileSlider__setattr__(f, None) =>
              /\ Get(inst', f) = None
              /\ \A g \in FieldNames \ {f} : Get(inst', g) = Get(inst, g)]_vars
C6_Witness ==
  /\ call.op = "__setattr__"
  /\ call.name = "min"
  /\ Get(inst, "min") = IntVal(0)
  /\ Get(inst, "title") = StrVal(<<>>)

\* C7 as stated: no construction and no assignment ends in an error.
C7_NeverRaises == call.op \in {"__init__", "__setattr__"} => err = ""

\* C7 as amended: a construction raises (TypeError) exactly when it is given
\* a positional argument or a keyword that names no declared field; no
\* assignment to a declared field raises; and the instance holds each
\* constructor argument and each assigned value exactly as given, whatever
\* its type.
C7_RaisesOnlyOnUndeclaredArguments ==
  /\ err \in {"", "TypeError"}
  /\ call.op = "__init__" =>
       (err = "" <=> (call.nargs = 0 /\ DOMAIN call.kwargs \subseteq FieldNames))
  /\ (call.op = "__init__" /\ err = "") =>
       \A f \in DOMAIN call.kwargs : Get(inst, f) = call.kwargs[f]
  /\ call.op = "__setattr__" => (err = "" /\ inst # <<>>)
  /\ (call.op = "__setattr__" /\ call.name # "") => Get(inst, call.name) = call.value
C7_Witness ==
  /\ call.op = "__init__"
  /\ err = ""
  /\ DOMAIN call.kwargs = {"uid", "conditional_entity"}
  /\ Get(inst, "uid") = StrVal(<<"a">>)
  /\ Get(inst, "conditional_entity") = IntVal(5)

\* C8: a written element carries an attribute or a child for a field exactly
\* when the field is populated, so the empty instance is written with no
\* attribute and no child.
C8_OnlyPopulatedFieldsWritten ==
  call.op = "serialize" =>
    /\ \A f \in FieldNames :
         f \in Populated(orig) <=>
           \/ \E a \in doc[1].attrs : a.name = f
           \/ \E c \in doc[1].children : c.name = f
    /\ \A a \in doc[1].attrs : a.name \in FieldNames
    /\ \A c \in doc[1].children : c.name \in FieldNames
    /\ Populated(orig) = {} => (doc[1].attrs = {} /\ doc[1].children = {})
C8_Witness ==
  /\ call.op = "serialize"
  /\ Populated(orig) = {}
  /\ doc[1].attrs = {}
  /\ doc[1].children = {}

\* C9: each of the 31 declared fields has one role, Attribute or Element: the
\* three nested fields are the Elements and the other 28, the vendor fields
\* among them, the Attributes.
RolesDeclared ==
  /\ DeclaresThirtyOneFields
  /\ \A f \in FieldNames : Role(f) \in {"Attribute", "Element"}
  /\ {f \in FieldNames : Role(f) = "Element"} = Elements
  /\ Cardinality({f \in FieldNames : Role(f) = "Attribute"}) = 28
C9_RolesPartitionTheFields ==
  /\ RolesDeclared
  /\ inst # <<>> =>
       \A f \in Populated(inst) : Role(f) = IF f \in Elements THEN "Element" ELSE "Attribute"
C9_Witness ==
  /\ inst # <<>>
  /\ Get(inst, "format") # None
  /\ Get(inst, "navigate_to") # None

\* C10: two instances are equal exactly when each of the 31 fields holds equal
\* values in both, and an instance with a field unset never equals the same
\* instance with that field set to False, 0 or the empty string.  Checked of
\* every instance against itself with the field last assigned set to each
\* value in turn.
Falsies == {BoolVal(FALSE), IntVal(0), StrVal(<<>>)}
C10_UnsetIsAValue ==
  (call.op = "__setattr__" /\ call.name # "") =>
    /\ \A v \in Falsies :
         ~XmileSlider__eq__(SetField(inst, call.name, None), SetField(inst, call.name, v))
    /\ \A v \in Assignable[call.name] \cup Falsies \cup {BoolVal(TRUE), IntVal(1), FloatVal(10)} :
         LET other == SetField(inst, call.name, v) IN
           XmileSlider__eq__(inst, other) <=>
             \A f \in FieldNames : PyEq(Get(inst, f), Get(other, f))
C10_Witness ==
  /\ call.op = "__setattr__"
  /\ call.name = "reset_to"
  /\ Get(inst, "show_name") = BoolVal(FALSE)
====
